---- MODULE Spec2Model ----
(***************************************************************************)
(* Process supervisor of the BuidlGuidl client (index.js): the single-     *)
(* instance lock file, the startup sequence of the supervised clients and  *)
(* the shutdown procedure handleExit.                                      *)
(*                                                                         *)
(* Two specifications share the variables:                                 *)
(*   SpecLock  several supervisor instances run the startup check          *)
(*             (isAlreadyRunning, createLockFile) against the same install *)
(*             directory, one file-system call per step;                   *)
(*   Spec      one supervisor instance (Me) with its four child roles, one *)
(*             event-loop task per step; FairSpec adds the fairness of the *)
(*             Node.js event loop.                                         *)
(***************************************************************************)
EXTENDS Naturals, Integers, Sequences, FiniteSets, TLC

\* ------------------------------------------------------------ bounds
\* Number of supervisor instances racing for the lock (SpecLock).
NumInst == 2
\* Number of deliveries of a termination trigger to one supervisor.
MaxExitCalls == 2
\* Number of calls of cleanupSecureDir.
MaxCleanupCalls == 3
\* Number of "/"-separated segments of a keystore's pubkey field.
MaxSegments == 4
\* The longest list of checkpoint candidates.
MaxCandidates == 2

\* ------------------------------------------------------------ constants
Inst == 1..NumInst
\* process.pid of the supervisor that Spec follows.
Me == 1
\* Content of script.lock when the file does not exist.
NoLock == 0
\* PID left in script.lock by an instance that is gone (process.kill: ESRCH).
StalePid == NumInst + 1
\* PID of a live primary instance that runs outside the model.
ForeignPid == NumInst + 2

\* setTimeout delays of the kill timers of handleExit, in milliseconds.
ValidatorKillDelay == 500
ClientKillDelay == 750

Roles == {"mevBoost", "execution", "consensus", "validator"}

\* The triggers that have a listener calling handleExit.
ExitTypes ==
  {"SIGINT", "SIGTERM", "SIGHUP", "SIGUSR2", "uncaughtException", "unhandledRejection"}

VARIABLES
  lockFile,          \* content of ethereum_clients/script.lock (NoLock: absent)
  optionsFile,       \* whether options.json exists
  pc,                \* per instance: position in index.js
  readPid,           \* per instance: the local pid of isAlreadyRunning (NoLock once
                     \* the primary branch has moved on)
  isExiting,         \* per instance: the isExiting flag
  exitCode,          \* per instance: exit code of the terminated process (-1: none)
  mevBoostEnabled,   \* --mev-boost
  validatorEnabled,  \* --validator
  consensusCheckpoint, \* whether --consensuscheckpoint was given
  selectedCheckpointUrl, \* index.js: "null", "override" (the URL given with
                     \* --consensuscheckpoint), "selected" (a URL the selection returned)
  checkpointUrl,     \* the --consensuscheckpoint argument given to the consensus
                     \* client script ("unset": not started, "none": no argument)
  optionsAtStart,    \* what options.json held when the program was started
  optionsLoaded,     \* commandLineOptions: optionsLoaded
  parentEnv,         \* names of the environment variables of the supervisor
  roleEnv,           \* pairs of a spawned role and the names of the variables
                     \* its script sees
  binaryEnv,         \* pairs of a role whose binary was spawned and the names
                     \* of the variables the binary sees
  candidates,        \* the probed checkpoint candidates, in the order of the list
  bestUrl,           \* what the selection returned: the index of a candidate,
                     \* NoneFound, or NotSelected before the selection
  child,             \* per role: state of the child process of Me
  exited,            \* per role: executionExited, consensusExited, ...
  killTimer,         \* per role: the setTimeout of handleExit that kills the child
  killLog,           \* sequence of roles in the order child.kill("SIGINT") was called
  spawnLog,          \* sequence of roles in the order spawn() was called
  interval,          \* whether the setInterval of handleExit is active
  exitCalls,         \* number of trigger deliveries so far
  exitLog,           \* exitType printed by handleExit ("" before)
  alerts,            \* per role: the message given to sendTelegramAlert ("": none)
  secureDirPath,     \* secureStore.js: secureDirPath ("null", or where the directory is)
  macRamDiskDevice,  \* secureStore.js: whether macRamDiskDevice is set
  secureDir,         \* whether the bgclient-<pid> directory exists
  ramDisk,           \* whether a RAM disk is attached (macOS)
  otherDirs,         \* bgclient-<pid> directories of other instances: <<where, owner>>
  passwordFiles,     \* where a password.txt exists: "disk" (validator/), "secure"
  secretFiles,       \* where per-validator secret files exist: "disk", "secure",
                     \* "outside" (outside the secrets directory)
  cleanupCalls,      \* number of calls of cleanupSecureDir
  storeLog,          \* the removals and detaches cleanupSecureDir performed
  lastCall,          \* the last secureStore / key manager operation called
  raised,            \* whether the last call of createSecureDir / cleanupSecureDir threw
  pubkey,            \* the pubkey field of the keystore file, split at "/"
  passwordDir,       \* whether the validator script was given --password-dir
  password,          \* content of the password.txt written last ("": none written)
  secretContent,     \* content of the secret file written last ("": none written)
  entered,           \* what the operator typed at the last password question
  prompts,           \* the questions promptAndSavePassword asked in this start
  keystores,         \* whether validator/keystores holds keystore files
  prysmWallet,       \* whether the keys were imported into the Prysm wallet
  consensusClient,   \* --consensusclient
  keySetup,          \* how the last key generation or import ended: "done",
                     \* "short" (password too short), "mismatch" (confirmation
                     \* differs); "none": the keystores were never copied
  yubikeyEnabled,    \* the physical-presence requirement of the command line
  otpInput,          \* what was entered at the physical-presence question
  presence           \* "unasked", "accepted" or "rejected"

lockVars == <<lockFile, optionsFile, pc, readPid, isExiting, exitCode>>
cfgVars == <<mevBoostEnabled, validatorEnabled, consensusCheckpoint>>
urlVars == <<selectedCheckpointUrl, checkpointUrl, candidates, bestUrl>>
optVars == <<optionsAtStart, optionsLoaded>>
envVars == <<parentEnv, roleEnv, binaryEnv>>
gateVars == <<yubikeyEnabled, otpInput, presence>>
dirVars == <<secureDirPath, macRamDiskDevice, secureDir, ramDisk, otherDirs>>
keyVars ==
  <<password, secretContent, entered, prompts, keystores, prysmWallet,
    consensusClient, keySetup>>
storeVars ==
  <<dirVars, passwordFiles, secretFiles, cleanupCalls, storeLog, lastCall, raised,
    pubkey, passwordDir, keyVars, urlVars, optVars, envVars, gateVars>>
childVars ==
  <<child, exited, killTimer, killLog, spawnLog, interval, exitCalls, exitLog, alerts>>
vars == <<lockFile, optionsFile, pc, readPid, isExiting, exitCode,
          mevBoostEnabled, validatorEnabled, consensusCheckpoint,
          selectedCheckpointUrl, checkpointUrl, candidates, bestUrl,
          optionsAtStart, optionsLoaded, parentEnv, roleEnv, binaryEnv,
          child, exited, killTimer, killLog, spawnLog, interval, exitCalls, exitLog,
          alerts,
          secureDirPath, macRamDiskDevice, secureDir, ramDisk, otherDirs, passwordFiles,
          secretFiles, cleanupCalls, storeLog, lastCall, raised, pubkey, passwordDir,
          password, secretContent, entered, prompts, keystores, prysmWallet,
          consensusClient, keySetup, yubikeyEnabled, otpInput, presence>>

Range(s) == {s[k] : k \in 1..Len(s)}

\* Positions at which the process is inside a synchronous stretch of code:
\* no signal and no child event is dispatched there.
\* The other positions are awaits (the event loop runs).
Suspended ==
  {"selecting", "spinner", "waitMev", "fetchPeers", "waitBeacon", "running", "observer"}

\* Positions of the primary branch (after createLockFile).
PrimaryPcs ==
  {"checkpoint", "selecting", "spinner", "setup", "waitMev", "startExec",
   "fetchPeers", "waitBeacon", "running"}

\* process.kill(pid, 0) succeeds.
alive(p) ==
  \/ p = ForeignPid
  \/ p \in Inst /\ pc[p] \notin {"idle", "done"}

\* ------------------------------------------------------------ the lock file

\* isAlreadyRunning: fs.existsSync(lockFilePath)
existsSync(i) ==
  /\ pc[i] = "exists"
  /\ pc' = [pc EXCEPT ![i] = IF lockFile # NoLock THEN "read" ELSE "deleteOptions"]
  /\ UNCHANGED <<lockFile, optionsFile, readPid, isExiting, exitCode>>
  /\ UNCHANGED <<cfgVars, childVars, storeVars>>

\* isAlreadyRunning: fs.readFileSync(lockFilePath); ENOENT is caught by the
\* outer catch, which returns false.
readFileSync(i) ==
  /\ pc[i] = "read"
  /\ IF lockFile = NoLock
       THEN /\ pc' = [pc EXCEPT ![i] = "deleteOptions"]
            /\ UNCHANGED readPid
       ELSE /\ pc' = [pc EXCEPT ![i] = "probe"]
            /\ readPid' = [readPid EXCEPT ![i] = lockFile]
  /\ UNCHANGED <<lockFile, optionsFile, isExiting, exitCode>>
  /\ UNCHANGED <<cfgVars, childVars, storeVars>>

\* isAlreadyRunning: process.kill(pid, 0); true when the pid is alive.
killProbe(i) ==
  /\ pc[i] = "probe"
  /\ pc' = [pc EXCEPT ![i] = IF alive(readPid[i]) THEN "observer" ELSE "unlink"]
  /\ UNCHANGED <<lockFile, optionsFile, readPid, isExiting, exitCode>>
  /\ UNCHANGED <<cfgVars, childVars, storeVars>>

\* isAlreadyRunning: fs.unlinkSync(lockFilePath) on ESRCH; it removes whatever
\* file is at the path now, and ENOENT is caught by the outer catch.
unlinkSync(i) ==
  /\ pc[i] = "unlink"
  /\ lockFile' = NoLock
  /\ pc' = [pc EXCEPT ![i] = "deleteOptions"]
  /\ UNCHANGED <<optionsFile, readPid, isExiting, exitCode>>
  /\ UNCHANGED <<cfgVars, childVars, storeVars>>

\* Primary branch: deleteOptionsFile()
deleteOptionsFile(i) ==
  /\ pc[i] = "deleteOptions"
  /\ optionsFile' = FALSE
  /\ pc' = [pc EXCEPT ![i] = "createLock"]
  /\ UNCHANGED <<lockFile, readPid, isExiting, exitCode>>
  /\ UNCHANGED <<cfgVars, childVars, storeVars>>

\* createLockFile: fs.writeFileSync(lockFilePath, process.pid) overwrites.
createLockFile(i) ==
  /\ pc[i] = "createLock"
  /\ lockFile' = i
  /\ pc' = [pc EXCEPT ![i] = "checkpoint"]
  /\ UNCHANGED <<optionsFile, readPid, isExiting, exitCode>>
  /\ UNCHANGED <<cfgVars, childVars, storeVars>>

\* removeLockFile: existsSync, then unlinkSync; the owner is not compared.
removeLockFile == NoLock

\* lockCheck with a fault: the pid in the lock file is not compared.
lockCheckNoOwner(i) == IF lockFile = NoLock THEN "error" ELSE "owner"

\* handleExit: outcome of comparing the lock file's pid to process.pid.
lockCheck(i) ==
  IF lockFile = NoLock THEN "error"
  ELSE IF lockFile # i THEN "notFirst"
  ELSE "owner"

IsAlreadyRunningStep(i) ==
  \/ existsSync(i)
  \/ readFileSync(i)
  \/ killProbe(i)
  \/ unlinkSync(i)

\* ------------------------------------------------------------ SpecLock
\* In SpecLock the child processes of an instance are left out: the primary
\* branch runs to its end in one step and a shutdown completes in one step.

\* Primary branch after createLockFile, up to saveOptionsToFile().
primaryBranch(i) ==
  /\ pc[i] = "checkpoint"
  /\ optionsFile' = TRUE
  /\ pc' = [pc EXCEPT ![i] = "running"]
  /\ readPid' = [readPid EXCEPT ![i] = NoLock]
  /\ UNCHANGED <<lockFile, isExiting, exitCode>>
  /\ UNCHANGED <<cfgVars, childVars, storeVars>>

\* handleExit up to deleteOptionsFile(): an instance whose pid is not in the
\* lock file closes without touching anything (process.exit(0)); a missing
\* lock file is process.exit(1).
handleExitLock(i) ==
  /\ pc[i] \in {"running", "observer"}
  /\ ~isExiting[i]
  /\ CASE lockCheck(i) = "error" ->
            /\ pc' = [pc EXCEPT ![i] = "done"]
            /\ exitCode' = [exitCode EXCEPT ![i] = 1]
            /\ UNCHANGED <<isExiting, optionsFile>>
       [] lockCheck(i) = "notFirst" ->
            /\ pc' = [pc EXCEPT ![i] = "done"]
            /\ exitCode' = [exitCode EXCEPT ![i] = 0]
            /\ UNCHANGED <<isExiting, optionsFile>>
       [] OTHER ->
            /\ isExiting' = [isExiting EXCEPT ![i] = TRUE]
            /\ optionsFile' = FALSE
            /\ UNCHANGED <<pc, exitCode>>
  /\ UNCHANGED <<lockFile, readPid>>
  /\ UNCHANGED <<cfgVars, childVars, storeVars>>

\* checkExit once every child has exited: removeLockFile(), process.exit(0).
checkExitLock(i) ==
  /\ pc[i] = "running"
  /\ isExiting[i]
  /\ lockFile' = removeLockFile
  /\ pc' = [pc EXCEPT ![i] = "done"]
  /\ exitCode' = [exitCode EXCEPT ![i] = 0]
  /\ UNCHANGED <<optionsFile, readPid, isExiting>>
  /\ UNCHANGED <<cfgVars, childVars, storeVars>>

InitChildren ==
  /\ child = [r \in Roles |-> "none"]
  /\ exited = [r \in Roles |-> FALSE]
  /\ killTimer = [r \in Roles |-> "unset"]
  /\ killLog = <<>>
  /\ spawnLog = <<>>
  /\ interval = FALSE
  /\ exitCalls = 0
  /\ exitLog = ""
  /\ alerts = [r \in Roles |-> ""]

\* The variable names an environment may hold: those the spawns name, and
\* one that stands for every other variable of the operator's shell.
EnvNames == {"HOME", "PATH", "TERM", "INSTALL_DIR", "TELEGRAM_BOT_TOKEN"}

\* The supervisor in an environment with one variable besides the usual
\* ones; no role is spawned.
InitEnv ==
  /\ parentEnv = {"HOME", "PATH", "TERM", "TELEGRAM_BOT_TOKEN"}
  /\ roleEnv = {}
  /\ binaryEnv = {}

\* options.json is absent.
\* An entry at the physical-presence question: its length and whether all
\* its characters are of the one-time code's alphabet.
NoOtp == [len |-> 0, modhex |-> TRUE]

\* A start without the physical-presence requirement.
InitGate ==
  /\ yubikeyEnabled = FALSE
  /\ otpInput = NoOtp
  /\ presence = "unasked"

NoOptionsFile ==
  [root |-> "absent", ownSuspiciousKey |-> FALSE, validatorEnabled |-> "undefined",
   mevBoostEnabled |-> "undefined", consensusCheckpoint |-> "undefined"]

\* bestUrl before the selection has run, and when no candidate is eligible.
NotSelected == -1
NoneFound == 0

\* The password the operator of Spec, SpecStore and SpecSecrets types.
OperatorPassword == "12345678"

\* A validator directory that holds the keystores of an earlier key setup
\* and no password file; the consensus client is the default one.
InitKeys ==
  /\ password = ""
  /\ secretContent = ""
  /\ entered = ""
  /\ prompts = <<>>
  /\ keystores = TRUE
  /\ prysmWallet = FALSE
  /\ consensusClient = "lighthouse"
  /\ keySetup = "done"
  /\ selectedCheckpointUrl = "null"
  /\ checkpointUrl = "unset"
  /\ candidates = <<>>
  /\ bestUrl = NotSelected
  /\ optionsAtStart = NoOptionsFile
  /\ optionsLoaded = FALSE
  /\ InitEnv
  /\ InitGate

\* Module state of secureStore.js (secureDirPath = null, macRamDiskDevice =
\* null) and a file system without password or secret files.
InitStore ==
  /\ secureDirPath = "null"
  /\ macRamDiskDevice = FALSE
  /\ secureDir = FALSE
  /\ ramDisk = FALSE
  /\ otherDirs = {}
  /\ passwordFiles = {}
  /\ secretFiles = {}
  /\ cleanupCalls = 0
  /\ storeLog = <<>>
  /\ lastCall = "none"
  /\ raised = FALSE
  /\ pubkey = <<>>
  /\ passwordDir = FALSE
  /\ InitKeys

\* Every instance has been launched and is about to call isAlreadyRunning();
\* the lock file is absent or left by an instance that is gone.
InitLock ==
  /\ lockFile \in {NoLock, StalePid}
  /\ optionsFile \in BOOLEAN
  /\ pc = [i \in Inst |-> "exists"]
  /\ readPid = [i \in Inst |-> NoLock]
  /\ isExiting = [i \in Inst |-> FALSE]
  /\ exitCode = [i \in Inst |-> -1]
  /\ mevBoostEnabled = FALSE
  /\ validatorEnabled = FALSE
  /\ consensusCheckpoint = FALSE
  /\ InitChildren
  /\ InitStore

NextLock ==
  \E i \in Inst :
    \/ IsAlreadyRunningStep(i)
    \/ deleteOptionsFile(i)
    \/ createLockFile(i)
    \/ primaryBranch(i)
    \/ handleExitLock(i)
    \/ checkExitLock(i)

SpecLock == InitLock /\ [][NextLock]_vars

\* ------------------------------------------------------------ Spec: startup
\* The supervisor Me, one event-loop task per step.

\* StartSequence with a fault: the consensus client is started before the
\* execution client.
StartSequenceConsensusFirst == <<"mevBoost", "consensus", "execution", "validator">>

\* The order in which the main sequence starts the roles.
StartSequence == <<"mevBoost", "execution", "consensus", "validator">>

\* Whether the command line enables a role.
roleEnabled(r) ==
  CASE r = "mevBoost" -> mevBoostEnabled
    [] r = "validator" -> validatorEnabled
    [] OTHER -> TRUE

\* spawn("node", ...): the child runs, or the spawn fails (an 'error' event
\* and no 'exit' event); either way the child variable holds the handle.
spawn(r) ==
  /\ \E outcome \in {"running", "failed"} : child' = [child EXCEPT ![r] = outcome]
  /\ spawnLog' = Append(spawnLog, r)

\* After createLockFile: with --consensuscheckpoint the selection is skipped,
\* otherwise selectCheckpointUrlFor...() is awaited.
beginStartup ==
  /\ pc[Me] = "checkpoint"
  /\ pc' = [pc EXCEPT ![Me] = IF consensusCheckpoint THEN "setup" ELSE "selecting"]
  /\ selectedCheckpointUrl' = IF consensusCheckpoint THEN "override" ELSE "null"
  /\ readPid' = [readPid EXCEPT ![Me] = NoLock]
  /\ UNCHANGED <<lockFile, optionsFile, isExiting, exitCode>>
  /\ UNCHANGED <<cfgVars, childVars, checkpointUrl, candidates, bestUrl>>
  /\ UNCHANGED <<dirVars, passwordFiles, secretFiles, cleanupCalls, storeLog, lastCall,
                  raised, pubkey, passwordDir, keyVars, optVars, envVars, gateVars>>

\* The selection returns a URL (then the 10 s spinner is awaited) or none.
selectCheckpointDone ==
  /\ pc[Me] = "selecting"
  /\ \E found \in BOOLEAN :
       /\ pc' = [pc EXCEPT ![Me] = IF found THEN "spinner" ELSE "setup"]
       /\ selectedCheckpointUrl' = IF found THEN "selected" ELSE "null"
  /\ UNCHANGED <<lockFile, optionsFile, readPid, isExiting, exitCode>>
  /\ UNCHANGED <<cfgVars, childVars, checkpointUrl, candidates, bestUrl>>
  /\ UNCHANGED <<dirVars, passwordFiles, secretFiles, cleanupCalls, storeLog, lastCall,
                  raised, pubkey, passwordDir, keyVars, optVars, envVars, gateVars>>

spinnerDone ==
  /\ pc[Me] = "spinner"
  /\ pc' = [pc EXCEPT ![Me] = "setup"]
  /\ UNCHANGED <<lockFile, optionsFile, readPid, isExiting, exitCode>>
  /\ UNCHANGED <<cfgVars, childVars, storeVars>>

\* getPasswordFilePath: inside the secure directory once createSecureDir has
\* set secureDirPath, else ethereum_clients/validator/password.txt.
getPasswordFilePath == IF secureDirPath # "null" THEN "secure" ELSE "disk"

\* The least length promptAndSavePassword takes.
MinPasswordLength == 8

\* What the operator may type at a password question: nothing, one
\* character too few, the least length, more.
Passwords == {"", "1234567", OperatorPassword, "abcdefghi"}

\* questions with a fault: the confirmation is asked on every start.
questionsAlwaysConfirm(firstTime) == <<"password", "confirm">>

\* The questions promptAndSavePassword asks when no check makes it exit:
\* the confirmation only if (firstTime).
questions(firstTime) ==
  IF firstTime THEN <<"password", "confirm">> ELSE <<"password">>

\* acceptsPassword with a fault: the length is not checked.
acceptsPasswordAnyLength(pw, firstTime, confirmPw) == firstTime => pw = confirmPw

\* promptAndSavePassword reaches its writeFileSync: neither
\* if (password.length < 8) nor, first time, if (password !== confirmPassword)
\* called process.exit(1).
acceptsPassword(pw, firstTime, confirmPw) ==
  /\ Len(pw) >= MinPasswordLength
  /\ firstTime => pw = confirmPw

\* promptAndSavePassword with an accepted password: mkdirSync of the parent
\* directory when it is missing, then writeFileSync(passwordPath, password).
promptAndSavePassword(pw, firstTime) ==
  /\ passwordFiles' = passwordFiles \cup {getPasswordFilePath}
  /\ secureDir' = (secureDir \/ getPasswordFilePath = "secure")
  /\ lastCall' = "save"
  /\ password' = pw
  /\ entered' = pw
  /\ prompts' = questions(firstTime)
  /\ UNCHANGED <<secureDirPath, macRamDiskDevice, ramDisk, otherDirs, secretFiles,
                  cleanupCalls, storeLog, raised, pubkey, passwordDir>>
  /\ UNCHANGED <<secretContent, consensusClient, urlVars, optVars, envVars, gateVars>>

\* if (validatorEnabled) setupValidatorKeys(...), which returns after
\* promptAndSavePassword;
\* if (mevBoostEnabled) { await startMevBoost(); await 2000 ms }
startMevBoost ==
  /\ pc[Me] = "setup"
  /\ IF validatorEnabled
       THEN /\ promptAndSavePassword(OperatorPassword, FALSE)
            /\ UNCHANGED <<keystores, prysmWallet, keySetup>>
       ELSE UNCHANGED storeVars
  /\ IF roleEnabled(StartSequence[1])
       THEN /\ spawn(StartSequence[1])
            /\ pc' = [pc EXCEPT ![Me] = "waitMev"]
       ELSE /\ pc' = [pc EXCEPT ![Me] = "startExec"]
            /\ UNCHANGED <<child, spawnLog>>
  /\ UNCHANGED <<lockFile, optionsFile, readPid, isExiting, exitCode>>
  /\ UNCHANGED <<cfgVars, exited, killTimer, killLog, interval, exitCalls, exitLog,
                  alerts>>

\* The 2000 ms timer after startMevBoost fires.
mevBoostWaitDone ==
  /\ pc[Me] = "waitMev"
  /\ pc' = [pc EXCEPT ![Me] = "startExec"]
  /\ UNCHANGED <<lockFile, optionsFile, readPid, isExiting, exitCode>>
  /\ UNCHANGED <<cfgVars, childVars, storeVars>>

\* await startClient(executionClient): spawn; then startClient(consensusClient)
\* runs up to its await fetchBGConsensusPeers().
startExecutionClient ==
  /\ pc[Me] = "startExec"
  /\ spawn(StartSequence[2])
  /\ pc' = [pc EXCEPT ![Me] = "fetchPeers"]
  /\ UNCHANGED <<lockFile, optionsFile, readPid, isExiting, exitCode>>
  /\ UNCHANGED <<cfgVars, exited, killTimer, killLog, interval, exitCalls, exitLog,
                  alerts, storeVars>>

\* saveOptionsToFile() at the end of the primary branch.
saveOptionsToFile == TRUE

\* checkpointArg with a fault: the argument is dropped.
checkpointArgDropped(url) == "none"

\* checkpointArg with a fault: the variable is pushed without the null test.
checkpointArgUnchecked(url) == url

\* startClient: if (checkpointUrl != null)
\*   clientArgs.push("--consensuscheckpoint", checkpointUrl)
checkpointArg(url) == IF url # "null" THEN url ELSE "none"

\* startClient(consensusClient) after its awaits: spawn; then either the
\* 5000 ms wait before the validator, or the end of the primary branch.
startConsensusClient ==
  /\ pc[Me] = "fetchPeers"
  /\ spawn(StartSequence[3])
  /\ checkpointUrl' = checkpointArg(selectedCheckpointUrl)
  /\ IF roleEnabled(StartSequence[4])
       THEN /\ pc' = [pc EXCEPT ![Me] = "waitBeacon"]
            /\ UNCHANGED optionsFile
       ELSE /\ pc' = [pc EXCEPT ![Me] = "running"]
            /\ optionsFile' = saveOptionsToFile
  /\ UNCHANGED <<lockFile, readPid, isExiting, exitCode>>
  /\ UNCHANGED <<cfgVars, exited, killTimer, killLog, interval, exitCalls, exitLog,
                  alerts, selectedCheckpointUrl, candidates, bestUrl>>
  /\ UNCHANGED <<dirVars, passwordFiles, secretFiles, cleanupCalls, storeLog, lastCall,
                  raised, pubkey, passwordDir, keyVars, optVars, envVars, gateVars>>

\* The 5000 ms timer fires: startValidatorClient(), saveOptionsToFile().
startValidatorClient ==
  /\ pc[Me] = "waitBeacon"
  /\ spawn(StartSequence[4])
  /\ pc' = [pc EXCEPT ![Me] = "running"]
  /\ optionsFile' = saveOptionsToFile
  /\ UNCHANGED <<lockFile, readPid, isExiting, exitCode>>
  /\ UNCHANGED <<cfgVars, exited, killTimer, killLog, interval, exitCalls, exitLog,
                  alerts, storeVars>>

\* ------------------------------------------------------------ Spec: children

\* The child process terminates (a crash, or the effect of a signal).
childDies(r) ==
  /\ child[r] = "running"
  /\ child' = [child EXCEPT ![r] = "dead"]
  /\ UNCHANGED <<lockVars, cfgVars, storeVars>>
  /\ UNCHANGED <<exited, killTimer, killLog, spawnLog, interval, exitCalls, exitLog,
                  alerts>>

\* The code argument of the "exit" event of a child that was terminated by a
\* signal (null in the source).
NoCode == -1

\* The code argument of the "exit" event: an exit status, or null.
ExitCodes == {0, 1, NoCode}

\* alertMessage with a fault: every role's message is tagged CRITICAL.
alertMessageAllCritical(r) == "CRITICAL"

\* The alertMessage of the three exit listeners, by its severity wording:
\* "CRITICAL: Validator client crashed", "<client> crashed", "MEV-Boost stopped".
alertMessage(r) ==
  CASE r = "validator" -> "CRITICAL"
    [] r = "mevBoost"  -> "stopped"
    [] OTHER           -> "crashed"

\* shouldAlert with a fault: the alert is sent during a shutdown as well.
shouldAlertAlways(code) == code # NoCode

\* if (!isExiting && code !== null)
shouldAlert(code) == ~isExiting[Me] /\ code # NoCode

\* child.on("exit") of startClient / startValidatorClient / startMevBoost:
\* it may send the crash alert and it sets the role's exited flag. The
\* listeners that handleExit adds run after it, find the flag set and do nothing.
childExitEvent(r) ==
  /\ pc[Me] \in Suspended
  /\ child[r] = "dead"
  /\ child' = [child EXCEPT ![r] = "exited"]
  /\ \E code \in ExitCodes :
       alerts' = IF shouldAlert(code) THEN [alerts EXCEPT ![r] = alertMessage(r)]
                 ELSE alerts
  /\ exited' = [exited EXCEPT ![r] = TRUE]
  /\ UNCHANGED <<lockVars, cfgVars, storeVars>>
  /\ UNCHANGED <<killTimer, killLog, spawnLog, interval, exitCalls, exitLog>>

\* ------------------------------------------------------------ Spec: shutdown

\* alreadyExiting with a fault: handleExit without its re-entrancy guard.
alreadyExitingUnguarded(i) == FALSE

\* if (isExiting) return;
alreadyExiting(i) == isExiting[i]

\* A role has a child handle and its exited flag is not set.
hasLiveChild(r) == child[r] # "none" /\ ~exited[r]

\* flagsAtExit with a fault: handleExit starts from fresh flags, set only
\* for the roles without a child.
flagsAtExitReset == [r \in Roles |-> child[r] = "none"]

\* handleExit: the exited flags after the listener block (a role without a
\* child, or already exited, is marked exited).
flagsAtExit == [r \in Roles |-> IF hasLiveChild(r) THEN exited[r] ELSE TRUE]

\* handleExit: one kill timer for each role with a live child.
timersAtExit == [r \in Roles |-> IF hasLiveChild(r) THEN "pending" ELSE killTimer[r]]

\* checkExit: every exited flag is set.
checkExit(flags) == \A r \in Roles : flags[r]

\* The state a process leaves behind when handleExit runs in instance i:
\* the values of the variables handleExit can change.
handleExit(i) ==
  LET now == [pc |-> pc[i], exitCode |-> exitCode[i], isExiting |-> isExiting[i],
              optionsFile |-> optionsFile, lockFile |-> lockFile, exited |-> exited,
              killTimer |-> killTimer, interval |-> interval]
  IN  IF alreadyExiting(i) THEN now
      ELSE CASE lockCheck(i) = "error" ->
                  [now EXCEPT !.pc = "done", !.exitCode = 1]
             [] lockCheck(i) = "notFirst" ->
                  [now EXCEPT !.pc = "done", !.exitCode = 0]
             [] OTHER ->
                  IF checkExit(flagsAtExit)
                    THEN [now EXCEPT !.isExiting = TRUE, !.optionsFile = FALSE,
                                     !.exited = flagsAtExit, !.killTimer = timersAtExit,
                                     !.lockFile = removeLockFile,
                                     !.pc = "done", !.exitCode = 0]
                    ELSE [now EXCEPT !.isExiting = TRUE, !.optionsFile = FALSE,
                                     !.exited = flagsAtExit, !.killTimer = timersAtExit,
                                     !.interval = TRUE]

\* listener with a fault: no listener is registered for SIGUSR2.
listenerWithoutSIGUSR2(e) == IF e = "SIGUSR2" THEN "default" ELSE "handleExit"

\* process.on(<trigger>, ...): the procedure each trigger runs.
listener(e) == "handleExit"

\* What the delivery of trigger e to instance i leaves behind: the listener's
\* procedure, or without a listener the default action (the process ends at
\* once, nothing is cleaned up).
deliver(i, e) ==
  IF listener(e) = "handleExit" THEN handleExit(i)
  ELSE [pc |-> "done", exitCode |-> 1, isExiting |-> isExiting[i],
        optionsFile |-> optionsFile, lockFile |-> lockFile, exited |-> exited,
        killTimer |-> killTimer, interval |-> interval]

\* A trigger (signal, uncaught exception, unhandled rejection) is dispatched.
trigger(e) ==
  /\ pc[Me] \in Suspended
  /\ exitCalls < MaxExitCalls
  /\ LET out == deliver(Me, e)
     IN  /\ pc' = [pc EXCEPT ![Me] = out.pc]
         /\ exitCode' = [exitCode EXCEPT ![Me] = out.exitCode]
         /\ isExiting' = [isExiting EXCEPT ![Me] = out.isExiting]
         /\ optionsFile' = out.optionsFile
         /\ lockFile' = out.lockFile
         /\ exited' = out.exited
         /\ killTimer' = out.killTimer
         /\ interval' = out.interval
         /\ exitLog' = IF out.isExiting /\ ~isExiting[Me] THEN e ELSE exitLog
  /\ exitCalls' = exitCalls + 1
  /\ UNCHANGED <<readPid, cfgVars, child, killLog, spawnLog, alerts, storeVars>>

\* exitListener with a fault: no listener is registered for "exit".
exitListenerMissing(i) ==
  [pc |-> pc[i], exitCode |-> exitCode[i], isExiting |-> isExiting[i],
   optionsFile |-> optionsFile, lockFile |-> lockFile, exited |-> exited,
   killTimer |-> killTimer, interval |-> interval]

\* process.on("exit", ...): if (!isExiting) handleExit("exit")
exitListener(i) == handleExit(i)

\* process.exit(code) outside handleExit: the "exit" listener runs, then the
\* process ends. A process.exit inside the listener ends it with that code;
\* the timers the listener has set never fire.
processExit(i, code) ==
  LET out == exitListener(i)
  IN  [out EXCEPT !.pc = "done",
                  !.exitCode = IF out.pc = "done" THEN out.exitCode ELSE code,
                  !.killTimer = killTimer,
                  !.interval = interval]

\* setupValidatorKeys() ends the process: process.exit(1) on an error (short
\* password, missing keys, failed import), process.exit(0) on a cancel; the
\* exits of importKeysForPrysm come after promptAndSavePassword.
setupValidatorKeysExits ==
  /\ pc[Me] = "setup"
  /\ validatorEnabled
  /\ \E saved \in BOOLEAN :
       IF saved
         THEN /\ promptAndSavePassword(OperatorPassword, TRUE)
              /\ UNCHANGED <<keystores, prysmWallet, keySetup>>
         ELSE UNCHANGED storeVars
  /\ \E code \in {0, 1} :
       LET out == processExit(Me, code)
       IN  /\ pc' = [pc EXCEPT ![Me] = out.pc]
           /\ exitCode' = [exitCode EXCEPT ![Me] = out.exitCode]
           /\ isExiting' = [isExiting EXCEPT ![Me] = out.isExiting]
           /\ optionsFile' = out.optionsFile
           /\ lockFile' = out.lockFile
           /\ exited' = out.exited
           /\ killTimer' = out.killTimer
           /\ interval' = out.interval
           /\ exitLog' = IF out.isExiting /\ ~isExiting[Me] THEN "exit" ELSE exitLog
  /\ UNCHANGED <<readPid, cfgVars, child, killLog, spawnLog, exitCalls, alerts>>

\* setTimeout delay of the kill timer of a role.
killDelay(r) == IF r = "validator" THEN ValidatorKillDelay ELSE ClientKillDelay

\* Order in which handleExit registers the kill timers.
killSeq(r) ==
  CASE r = "validator" -> 1
    [] r = "execution" -> 2
    [] r = "consensus" -> 3
    [] r = "mevBoost" -> 4

\* Timers registered in the same task fire by delay, equal delays in the
\* order of registration.
firesBefore(r1, r2) ==
  \/ killDelay(r1) < killDelay(r2)
  \/ killDelay(r1) = killDelay(r2) /\ killSeq(r1) < killSeq(r2)

\* A kill timer fires: child.kill("SIGINT").
killTimerFires(r) ==
  /\ pc[Me] \in Suspended
  /\ killTimer[r] = "pending"
  /\ \A r2 \in Roles \ {r} : killTimer[r2] = "pending" => firesBefore(r, r2)
  /\ killTimer' = [killTimer EXCEPT ![r] = "fired"]
  /\ killLog' = Append(killLog, r)
  /\ UNCHANGED <<lockVars, cfgVars, storeVars>>
  /\ UNCHANGED <<child, exited, spawnLog, interval, exitCalls, exitLog, alerts>>

\* The setInterval of handleExit (1000 ms, after the kill timers): checkExit().
intervalTick ==
  /\ pc[Me] \in Suspended
  /\ interval
  /\ \A r \in Roles : killTimer[r] # "pending"
  /\ IF checkExit(exited)
       THEN /\ lockFile' = removeLockFile
            /\ pc' = [pc EXCEPT ![Me] = "done"]
            /\ exitCode' = [exitCode EXCEPT ![Me] = 0]
       ELSE UNCHANGED <<lockFile, pc, exitCode>>
  /\ UNCHANGED <<optionsFile, readPid, isExiting>>
  /\ UNCHANGED <<cfgVars, childVars, storeVars>>

\* The live primary instance outside the model shuts down and removes its lock.
foreignShutdown ==
  /\ lockFile = ForeignPid
  /\ pc[Me] = "observer"
  /\ lockFile' = removeLockFile
  /\ UNCHANGED <<optionsFile, pc, readPid, isExiting, exitCode>>
  /\ UNCHANGED <<cfgVars, childVars, storeVars>>

Init ==
  /\ lockFile \in {NoLock, StalePid, ForeignPid}
  /\ optionsFile \in BOOLEAN
  /\ pc = [i \in Inst |-> IF i = Me THEN "exists" ELSE "idle"]
  /\ readPid = [i \in Inst |-> NoLock]
  /\ isExiting = [i \in Inst |-> FALSE]
  /\ exitCode = [i \in Inst |-> -1]
  /\ mevBoostEnabled \in BOOLEAN
  /\ validatorEnabled \in BOOLEAN
  /\ consensusCheckpoint \in BOOLEAN
  /\ InitChildren
  /\ InitStore

Startup ==
  \/ IsAlreadyRunningStep(Me)
  \/ deleteOptionsFile(Me)
  \/ createLockFile(Me)
  \/ beginStartup
  \/ selectCheckpointDone
  \/ spinnerDone
  \/ startMevBoost
  \/ mevBoostWaitDone
  \/ startExecutionClient
  \/ startConsensusClient
  \/ startValidatorClient

Next ==
  \/ Startup
  \/ setupValidatorKeysExits
  \/ \E e \in ExitTypes : trigger(e)
  \/ \E r \in Roles : killTimerFires(r)
  \/ intervalTick
  \/ \E r \in Roles : childDies(r)
  \/ \E r \in Roles : childExitEvent(r)
  \/ foreignShutdown

Spec == Init /\ [][Next]_vars

\* A child that was sent SIGINT terminates.
signalledChildDies(r) == r \in Range(killLog) /\ childDies(r)

\* The event loop runs every task that is ready; a signalled child terminates.
Fairness ==
  /\ WF_vars(Startup)
  /\ WF_vars(intervalTick)
  /\ \A r \in Roles : WF_vars(killTimerFires(r))
  /\ \A r \in Roles : WF_vars(childExitEvent(r))
  /\ \A r \in Roles : WF_vars(signalledChildDies(r))

FairSpec == Spec /\ Fairness

\* The event loop of the supervisor runs every task that is ready; nothing is
\* assumed about the children.
LoopFairness ==
  /\ WF_vars(Startup)
  /\ WF_vars(intervalTick)
  /\ \A r \in Roles : WF_vars(killTimerFires(r))
  /\ \A r \in Roles : WF_vars(childExitEvent(r))

LoopSpec == Spec /\ LoopFairness

\* ------------------------------------------------------------ SpecStore
\* secureStore.js with the key manager and the Lighthouse validator script
\* that use it, called in any order.

\* Where a bgclient-<pid> directory can be: /dev/shm, a RAM disk volume,
\* os.tmpdir().
Backings == {"shm", "ramdisk", "tmp"}

\* The directories of instances that are gone, and of instances that run.
DeadDirs == {<<b, "dead">> : b \in Backings}
LiveDirs == {<<b, "live">> : b \in Backings}

\* cleanupStaleDirs(parentDir): rmSync (recursive, force; taken to succeed)
\* of the directories in parentDir whose pid is gone (process.kill(pid, 0)
\* throws).
cleanupStaleDirs(parentDir) == otherDirs \ {<<parentDir, "dead">>}

\* createSecureDir: /dev/shm on Linux (after cleanupStaleDirs, and with a
\* mkdirSync outside any try block), a RAM disk on macOS, else (or when that
\* returns null) os.tmpdir(), taken to be writable. createMacSecureDir resets
\* macRamDiskDevice when diskutil or mkdirSync fails after hdiutil attached
\* the RAM disk.
createSecureDir ==
  /\ lastCall' = "create"
  /\ IF secureDirPath # "null" /\ secureDir
       THEN /\ raised' = FALSE
            /\ UNCHANGED dirVars
       ELSE \E platform \in {"linux", "darwin", "other"} :
              CASE platform = "linux" ->
                     \E outcome \in {"created", "noShm", "mkdirFails"} :
                       /\ otherDirs' = IF outcome = "noShm" THEN otherDirs
                                       ELSE cleanupStaleDirs("shm")
                       /\ raised' = (outcome = "mkdirFails")
                       /\ secureDirPath' =
                            CASE outcome = "created" -> "shm"
                              [] outcome = "noShm" -> "tmp"
                              [] OTHER -> secureDirPath
                       /\ secureDir' = (secureDir \/ outcome # "mkdirFails")
                       /\ UNCHANGED <<macRamDiskDevice, ramDisk>>
                [] platform = "darwin" ->
                     \E outcome \in {"mounted", "attachFails", "formatFails"} :
                       /\ secureDirPath' = IF outcome = "mounted" THEN "ramdisk" ELSE "tmp"
                       /\ macRamDiskDevice' = (outcome = "mounted")
                       /\ ramDisk' = (ramDisk \/ outcome # "attachFails")
                       /\ secureDir' = TRUE
                       /\ raised' = FALSE
                       /\ UNCHANGED otherDirs
                [] OTHER ->
                     /\ secureDirPath' = "tmp"
                     /\ secureDir' = TRUE
                     /\ raised' = FALSE
                     /\ UNCHANGED <<macRamDiskDevice, ramDisk, otherDirs>>
  /\ UNCHANGED <<passwordFiles, secretFiles, cleanupCalls, storeLog, pubkey, passwordDir,
                  keyVars, urlVars, optVars, envVars, gateVars>>
  /\ UNCHANGED <<lockVars, cfgVars, childVars>>

\* The key manager saves the keystore password.
savePassword ==
  /\ promptAndSavePassword(OperatorPassword, FALSE)
  /\ UNCHANGED <<keystores, prysmWallet, keySetup>>
  /\ UNCHANGED <<lockVars, cfgVars, childVars>>

\* if (pubkey): the field is present and not the empty string.
truthy(pk) == pk # <<>> /\ pk # <<"">>

\* path.join(secretsDir, "0x" + pubkey), normalised: the number of levels
\* above secretsDir (ups) and of names below that (depth) after the segments
\* from k on. The first segment follows "0x" and is always a name.
RECURSIVE joinFrom(_, _, _, _)
joinFrom(pk, k, ups, depth) ==
  IF k > Len(pk) THEN [ups |-> ups, depth |-> depth]
  ELSE IF k = 1 THEN joinFrom(pk, 2, ups, depth + 1)
  ELSE IF pk[k] = "" THEN joinFrom(pk, k + 1, ups, depth)
  ELSE IF pk[k] = ".."
         THEN IF depth > 0 THEN joinFrom(pk, k + 1, ups, depth - 1)
              ELSE joinFrom(pk, k + 1, ups + 1, depth)
  ELSE joinFrom(pk, k + 1, ups, depth + 1)

\* fs.writeFileSync(secretFile, password): where the file is created. The
\* write fails (and is caught) when the path is a directory, ends in "/" or
\* lies in a directory that does not exist.
secretFileTarget(pk) ==
  LET at == joinFrom(pk, 1, 0, 0)
  IN  IF at.depth # 1 \/ (Len(pk) > 1 /\ pk[Len(pk)] = "") THEN "error"
      ELSE IF at.ups = 0 THEN "inside"
      ELSE "outside"

\* The condition under which the script writes the secret file of a keystore.
writesSecret(pk) == truthy(pk)

\* secretFileContent with a fault: the secret file is written empty.
secretFileContentEmpty(pw) == ""

\* password = fs.readFileSync(passwordFile, "utf8"), written as it was read.
secretFileContent(pw) == pw

\* lighthouse_validator.js: the per-validator secret files are written from
\* password.txt and the keystore's pubkey, under --password-dir if given.
populateSecrets ==
  LET dir == IF passwordDir THEN "secure" ELSE "disk"
  IN  /\ dir \in passwordFiles
      /\ lastCall' = "populate"
      /\ secretFiles' =
           IF writesSecret(pubkey) /\ secretFileTarget(pubkey) # "error"
             THEN secretFiles \cup
                    {IF secretFileTarget(pubkey) = "inside" THEN dir ELSE "outside"}
             ELSE secretFiles
      /\ secretContent' =
           IF writesSecret(pubkey) /\ secretFileTarget(pubkey) # "error"
             THEN secretFileContent(password)
             ELSE secretContent
      /\ UNCHANGED <<dirVars, passwordFiles, cleanupCalls, storeLog, raised,
                      pubkey, passwordDir>>
      /\ UNCHANGED <<password, entered, prompts, keystores, prysmWallet,
                      consensusClient, keySetup, urlVars, optVars, envVars, gateVars>>
      /\ UNCHANGED <<lockVars, cfgVars, childVars>>

\* nothingToClean with a fault: cleanupSecureDir without its first line.
nothingToCleanUnguarded == FALSE

\* if (!secureDirPath) return;
nothingToClean == secureDirPath = "null"

\* cleanupRaises with a fault: the two try blocks are missing.
cleanupRaisesUncaught(rmFails, detachFails) == rmFails \/ detachFails

\* Whether cleanupSecureDir throws when rmSync or hdiutil fails: both calls
\* are inside try / catch blocks that only log.
cleanupRaises(rmFails, detachFails) == FALSE

\* cleanupSecureDir: rmSync of the directory if it exists, hdiutil detach of
\* the RAM disk if one was created, then both module variables are reset.
cleanupSecureDir ==
  /\ cleanupCalls < MaxCleanupCalls
  /\ cleanupCalls' = cleanupCalls + 1
  /\ lastCall' = IF lastCall \in {"cleanup", "cleanupAgain"} THEN "cleanupAgain"
                 ELSE "cleanup"
  /\ IF nothingToClean
       THEN /\ raised' = FALSE
            /\ UNCHANGED <<dirVars, passwordFiles, secretFiles, storeLog>>
       ELSE \E rmFails \in BOOLEAN, detachFails \in BOOLEAN :
              LET rm == secureDir
                  removed == rm /\ ~rmFails
                  detach == macRamDiskDevice
                  detached == detach /\ ~detachFails
                  gone == removed \/ (detached /\ secureDirPath = "ramdisk")
              IN  /\ secureDir' = (secureDir /\ ~gone)
                  /\ passwordFiles' = IF gone THEN passwordFiles \ {"secure"}
                                       ELSE passwordFiles
                  /\ secretFiles' = IF gone THEN secretFiles \ {"secure"}
                                     ELSE secretFiles
                  /\ ramDisk' = (ramDisk /\ ~detached)
                  /\ storeLog' = storeLog \o (IF rm THEN <<"rm">> ELSE <<>>)
                                           \o (IF detach THEN <<"detach">> ELSE <<>>)
                  /\ raised' = cleanupRaises(rm /\ rmFails, detach /\ detachFails)
                  /\ UNCHANGED otherDirs
                  /\ macRamDiskDevice' = FALSE
                  /\ secureDirPath' = "null"
  /\ UNCHANGED <<pubkey, passwordDir, keyVars, urlVars, optVars, envVars, gateVars>>
  /\ UNCHANGED <<lockVars, cfgVars, childVars>>

\* The supervisor process of SpecStore: no instance is followed and no child
\* is started; the keystore has a valid pubkey.
InitSpecStore ==
  /\ lockFile = NoLock
  /\ optionsFile = FALSE
  /\ pc = [i \in Inst |-> "idle"]
  /\ readPid = [i \in Inst |-> NoLock]
  /\ isExiting = [i \in Inst |-> FALSE]
  /\ exitCode = [i \in Inst |-> -1]
  /\ mevBoostEnabled = FALSE
  /\ validatorEnabled = TRUE
  /\ consensusCheckpoint = FALSE
  /\ InitChildren
  /\ secureDirPath = "null"
  /\ macRamDiskDevice = FALSE
  /\ secureDir = FALSE
  /\ ramDisk = FALSE
  /\ otherDirs \in {LiveDirs \cup dead : dead \in SUBSET DeadDirs}
  /\ passwordFiles = {}
  /\ secretFiles = {}
  /\ cleanupCalls = 0
  /\ storeLog = <<>>
  /\ lastCall = "none"
  /\ raised = FALSE
  /\ pubkey = <<"ab">>
  /\ passwordDir \in BOOLEAN
  /\ InitKeys

NextStore ==
  \/ createSecureDir
  \/ savePassword
  \/ populateSecrets
  \/ cleanupSecureDir

SpecStore == InitSpecStore /\ [][NextStore]_vars

\* ------------------------------------------------------------ SpecSecrets
\* One run of the Lighthouse validator script on one keystore file.

\* The segments a pubkey field is made of: hex digits, a name that is not
\* hex, the parent directory, nothing (two "/" in a row, or "/" at an end).
Segments == {"ab", "zz", "..", ""}

\* The pubkey fields a keystore file may carry (<<>>: no pubkey field).
Pubkeys == UNION {[1..n -> Segments] : n \in 0..MaxSegments}

\* The script starts with password.txt in place, in the directory given by
\* --password-dir or in ethereum_clients/validator.
InitSpecSecrets ==
  /\ lockFile = NoLock
  /\ optionsFile = FALSE
  /\ pc = [i \in Inst |-> "idle"]
  /\ readPid = [i \in Inst |-> NoLock]
  /\ isExiting = [i \in Inst |-> FALSE]
  /\ exitCode = [i \in Inst |-> -1]
  /\ mevBoostEnabled = FALSE
  /\ validatorEnabled = TRUE
  /\ consensusCheckpoint = FALSE
  /\ InitChildren
  /\ pubkey \in Pubkeys
  /\ passwordDir \in BOOLEAN
  /\ secureDirPath = IF passwordDir THEN "shm" ELSE "null"
  /\ macRamDiskDevice = FALSE
  /\ secureDir = passwordDir
  /\ ramDisk = FALSE
  /\ otherDirs = {}
  /\ passwordFiles = {IF passwordDir THEN "secure" ELSE "disk"}
  /\ secretFiles = {}
  /\ cleanupCalls = 0
  /\ storeLog = <<>>
  /\ lastCall = "save"
  /\ raised = FALSE
  /\ password = OperatorPassword
  /\ secretContent = ""
  /\ entered = OperatorPassword
  /\ prompts = questions(FALSE)
  /\ keystores = TRUE
  /\ prysmWallet = FALSE
  /\ consensusClient = "lighthouse"
  /\ keySetup = "done"
  /\ selectedCheckpointUrl = "null"
  /\ checkpointUrl = "unset"
  /\ candidates = <<>>
  /\ bestUrl = NotSelected
  /\ optionsAtStart = NoOptionsFile
  /\ optionsLoaded = FALSE
  /\ InitEnv
  /\ InitGate

SpecSecrets == InitSpecSecrets /\ [][populateSecrets]_vars

\* ------------------------------------------------------------ SpecKeys
\* The validator key setup of successive starts of the program on one
\* installation directory, and the Lighthouse validator script once the
\* validator was launched.

ConsensusClients == {"lighthouse", "prysm"}

\* process.exit(code) called inside setupValidatorKeys.
exitProcess(code) ==
  LET out == processExit(Me, code)
  IN  /\ pc' = [pc EXCEPT ![Me] = out.pc]
      /\ exitCode' = [exitCode EXCEPT ![Me] = out.exitCode]
      /\ isExiting' = [isExiting EXCEPT ![Me] = out.isExiting]
      /\ optionsFile' = out.optionsFile
      /\ lockFile' = out.lockFile
      /\ exited' = out.exited
      /\ killTimer' = out.killTimer
      /\ interval' = out.interval
      /\ exitLog' = IF out.isExiting /\ ~isExiting[Me] THEN "exit" ELSE exitLog
      /\ UNCHANGED <<readPid, cfgVars, child, killLog, spawnLog, exitCalls, alerts>>

\* setupValidatorKeys returned: index.js goes on to start the clients and
\* launches the validator.
keysReady ==
  /\ pc' = [pc EXCEPT ![Me] = "validating"]
  /\ UNCHANGED <<lockFile, optionsFile, readPid, isExiting, exitCode>>
  /\ UNCHANGED <<cfgVars, childVars>>

\* promptAndSavePassword ends in process.exit(1): after the first question
\* when the password is too short, after the confirmation otherwise.
rejectPassword(pw, firstTime) ==
  /\ entered' = pw
  /\ prompts' = IF Len(pw) < MinPasswordLength THEN <<"password">>
                ELSE questions(firstTime)
  /\ UNCHANGED <<dirVars, passwordFiles, secretFiles, cleanupCalls, storeLog,
                  lastCall, raised, pubkey, passwordDir>>
  /\ UNCHANGED <<password, secretContent, consensusClient, urlVars, optVars, envVars, gateVars>>
  /\ exitProcess(1)

\* setupValidatorKeys, if (hasExistingKeys(installDir)): the password is
\* asked for and the function returns.
routineStart ==
  /\ pc[Me] = "setup"
  /\ keystores
  /\ UNCHANGED <<keystores, prysmWallet, keySetup>>
  /\ \E pw \in Passwords :
       IF acceptsPassword(pw, FALSE, pw)
         THEN promptAndSavePassword(pw, FALSE) /\ keysReady
         ELSE rejectPassword(pw, FALSE)

\* setupValidatorKeys without keystores, when no keystore reaches
\* validator/keystores: the operator cancels (process.exit(0)), or the
\* platform, the validator count, the deposit tool or the source directory
\* makes generateValidatorKeys / importValidatorKeys call process.exit(1).
firstTimeSetupAbandoned ==
  /\ pc[Me] = "setup"
  /\ ~keystores
  /\ UNCHANGED storeVars
  /\ \E code \in {0, 1} : exitProcess(code)

\* setupValidatorKeys without keystores, generateValidatorKeys or
\* importValidatorKeys having copied the keystores to validator/keystores:
\* promptAndSavePassword(installDir, { firstTime: true }), then for Prysm
\* importKeysForPrysm, whose failed import is caught and only logged.
firstTimeSetup ==
  /\ pc[Me] = "setup"
  /\ ~keystores
  /\ keystores' = TRUE
  /\ \E pw \in Passwords, confirmPw \in Passwords, imported \in BOOLEAN :
       IF acceptsPassword(pw, TRUE, confirmPw)
         THEN /\ promptAndSavePassword(pw, TRUE)
              /\ prysmWallet' = (prysmWallet \/ (consensusClient = "prysm" /\ imported))
              /\ keySetup' = "done"
              /\ keysReady
         ELSE /\ rejectPassword(pw, TRUE)
              /\ keySetup' = IF Len(pw) < MinPasswordLength THEN "short"
                             ELSE "mismatch"
              /\ UNCHANGED prysmWallet

\* The validator child runs its script: lighthouse_validator.js populates
\* the secrets directory; prysm_validator.js hands password.txt to the
\* wallet and writes no file.
validatorScript ==
  /\ pc[Me] = "validating"
  /\ IF consensusClient = "lighthouse"
       THEN populateSecrets
       ELSE /\ lastCall' = "prysm"
            /\ UNCHANGED <<dirVars, passwordFiles, secretFiles, cleanupCalls, storeLog,
                            raised, pubkey, passwordDir, keyVars, urlVars, optVars, envVars, gateVars>>
            /\ UNCHANGED <<lockVars, cfgVars, childVars>>

\* The program is started again on the same installation directory: a new
\* process, the files of the validator directory as they were left.
nextStart ==
  /\ pc[Me] \in {"validating", "done"}
  /\ pc' = [pc EXCEPT ![Me] = "setup"]
  /\ exitCode' = [exitCode EXCEPT ![Me] = -1]
  /\ isExiting' = [isExiting EXCEPT ![Me] = FALSE]
  /\ lockFile' = Me
  /\ optionsFile' = FALSE
  /\ exitLog' = ""
  /\ exited' = [r \in Roles |-> FALSE]
  /\ killTimer' = [r \in Roles |-> "unset"]
  /\ interval' = FALSE
  /\ entered' = ""
  /\ prompts' = <<>>
  /\ UNCHANGED <<readPid, cfgVars, child, killLog, spawnLog, exitCalls, alerts>>
  /\ UNCHANGED <<dirVars, passwordFiles, secretFiles, cleanupCalls, storeLog,
                  lastCall, raised, pubkey, passwordDir>>
  /\ UNCHANGED <<password, secretContent, keystores, prysmWallet, consensusClient,
                  keySetup, urlVars, optVars, envVars, gateVars>>

\* The first start: the primary instance holds the lock and is about to
\* call setupValidatorKeys, on an installation with or without the
\* keystores of an earlier, completed key setup.
InitSpecKeys ==
  /\ lockFile = Me
  /\ optionsFile = FALSE
  /\ pc = [i \in Inst |-> IF i = Me THEN "setup" ELSE "idle"]
  /\ readPid = [i \in Inst |-> NoLock]
  /\ isExiting = [i \in Inst |-> FALSE]
  /\ exitCode = [i \in Inst |-> -1]
  /\ mevBoostEnabled = FALSE
  /\ validatorEnabled = TRUE
  /\ consensusCheckpoint = FALSE
  /\ InitChildren
  /\ secureDirPath = "null"
  /\ macRamDiskDevice = FALSE
  /\ secureDir = FALSE
  /\ ramDisk = FALSE
  /\ otherDirs = {}
  /\ passwordFiles = {}
  /\ secretFiles = {}
  /\ cleanupCalls = 0
  /\ storeLog = <<>>
  /\ lastCall = "none"
  /\ raised = FALSE
  /\ pubkey = <<"ab">>
  /\ passwordDir = FALSE
  /\ password = ""
  /\ secretContent = ""
  /\ entered = ""
  /\ prompts = <<>>
  /\ consensusClient \in ConsensusClients
  /\ keystores \in BOOLEAN
  /\ prysmWallet = (keystores /\ consensusClient = "prysm")
  /\ keySetup = IF keystores THEN "done" ELSE "none"
  /\ selectedCheckpointUrl = "null"
  /\ checkpointUrl = "unset"
  /\ candidates = <<>>
  /\ bestUrl = NotSelected
  /\ optionsAtStart = NoOptionsFile
  /\ optionsLoaded = FALSE
  /\ InitEnv
  /\ InitGate

NextKeys ==
  \/ routineStart
  \/ firstTimeSetupAbandoned
  \/ firstTimeSetup
  \/ validatorScript
  \/ nextStart

SpecKeys == InitSpecKeys /\ [][NextKeys]_vars

\* ------------------------------------------------------------ SpecSelect
\* The checkpoint selection (checkpointHealthCheck.js) on one list of
\* candidates whose probes have completed or were cancelled.

\* headSlotAge at and above which a candidate is stale.
FreshnessThreshold == 2

\* The outcome of one probe: a probe that errors or times out leaves the
\* candidate unreachable.
Candidates ==
  [reachable : BOOLEAN, headSlotAge : 0..FreshnessThreshold, latency : 1..2]

\* A candidate is eligible only if reachable and fresh.
eligible(c) == c.reachable /\ c.headSlotAge < FreshnessThreshold

\* better with a fault: latency is ranked first, freshness breaks ties.
betterByLatencyFirst(a, b) ==
  \/ a.latency < b.latency
  \/ a.latency = b.latency /\ a.headSlotAge < b.headSlotAge

\* The ranking: freshness first, latency as tiebreak.
better(a, b) ==
  \/ a.headSlotAge < b.headSlotAge
  \/ a.headSlotAge = b.headSlotAge /\ a.latency < b.latency

\* The top-ranked eligible candidate of cs[k..Len(cs)] and best (an index,
\* NoneFound when none so far); of equally ranked ones the first stays.
RECURSIVE bestFrom(_, _, _)
bestFrom(cs, k, best) ==
  IF k > Len(cs) THEN best
  ELSE IF eligible(cs[k]) /\ (best = NoneFound \/ better(cs[k], cs[best]))
         THEN bestFrom(cs, k + 1, k)
         ELSE bestFrom(cs, k + 1, best)

\* selectBest: the top-ranked eligible candidate, or NoneFound.
selectBest(cs) == bestFrom(cs, 1, NoneFound)

\* The selection returns.
selectBestDone ==
  /\ bestUrl = NotSelected
  /\ bestUrl' = selectBest(candidates)
  /\ UNCHANGED <<selectedCheckpointUrl, checkpointUrl, candidates>>
  /\ UNCHANGED <<dirVars, passwordFiles, secretFiles, cleanupCalls, storeLog, lastCall,
                  raised, pubkey, passwordDir, keyVars, optVars, envVars, gateVars>>
  /\ UNCHANGED <<lockVars, cfgVars, childVars>>

\* Every list of up to MaxCandidates probed candidates.
InitSpecSelect ==
  /\ lockFile = Me
  /\ optionsFile = FALSE
  /\ pc = [i \in Inst |-> IF i = Me THEN "selecting" ELSE "idle"]
  /\ readPid = [i \in Inst |-> NoLock]
  /\ isExiting = [i \in Inst |-> FALSE]
  /\ exitCode = [i \in Inst |-> -1]
  /\ mevBoostEnabled = FALSE
  /\ validatorEnabled = FALSE
  /\ consensusCheckpoint = FALSE
  /\ InitChildren
  /\ secureDirPath = "null"
  /\ macRamDiskDevice = FALSE
  /\ secureDir = FALSE
  /\ ramDisk = FALSE
  /\ otherDirs = {}
  /\ passwordFiles = {}
  /\ secretFiles = {}
  /\ cleanupCalls = 0
  /\ storeLog = <<>>
  /\ lastCall = "none"
  /\ raised = FALSE
  /\ pubkey = <<>>
  /\ passwordDir = FALSE
  /\ password = ""
  /\ secretContent = ""
  /\ entered = ""
  /\ prompts = <<>>
  /\ keystores = TRUE
  /\ prysmWallet = FALSE
  /\ consensusClient = "lighthouse"
  /\ keySetup = "done"
  /\ selectedCheckpointUrl = "null"
  /\ checkpointUrl = "unset"
  /\ candidates \in UNION {[1..n -> Candidates] : n \in 0..MaxCandidates}
  /\ bestUrl = NotSelected
  /\ optionsAtStart = NoOptionsFile
  /\ optionsLoaded = FALSE
  /\ InitEnv
  /\ InitGate

SpecSelect == InitSpecSelect /\ [][selectBestDone]_vars

\* ------------------------------------------------------------ SpecOptions
\* The start of the commandLineOptions module: options.json is loaded if it
\* exists, otherwise, or when loading fails, the command line is processed.

\* What JSON.parse makes of the file: an object, an array, null, a string;
\* "notJson": JSON.parse throws.
Roots == {"object", "array", "null", "string", "notJson"}

\* Values of a field, by JSON type: booleans and strings; besides them
\* "null", the number "5", and "undefined" for a field the object lacks.
JsonBooleans == {"true", "false"}
JsonStrings == {"'true'", "'url'"}

\* The contents of options.json followed: the root, whether the object has
\* an own key __proto__ or constructor, and one field of each checked kind.
OptionFiles ==
  [root : Roots, ownSuspiciousKey : BOOLEAN,
   validatorEnabled : {"true", "false", "'true'", "undefined"},
   mevBoostEnabled : {"true", "'true'"},
   consensusCheckpoint : {"null", "'url'", "5"}]

\* The options.json that saveOptionsToFile writes for the module variables
\* validatorEnabled, mevBoostEnabled and consensusCheckpoint:
\* JSON.stringify of an object literal, booleans as true / false,
\* consensusCheckpoint as null or the string.
savedOptions(val, mev, cc) ==
  [root |-> "object", ownSuspiciousKey |-> FALSE,
   validatorEnabled |-> IF val THEN "true" ELSE "false",
   mevBoostEnabled |-> IF mev THEN "true" ELSE "false",
   consensusCheckpoint |-> IF cc THEN "'url'" ELSE "null"]

\* options.__proto__ !== undefined || options.constructor !== undefined:
\* both properties are inherited from Object.prototype by every object
\* JSON.parse returns, own key or not.
suspiciousKeys(f) == TRUE

\* stringFields: undefined, null or a string.
stringFieldOk(v) == v \in JsonStrings \cup {"null", "undefined"}

\* boolFields: undefined or a boolean.
boolFieldOk(v) == v \in JsonBooleans \cup {"undefined"}

\* loadOptionsFromFile on an existing file: "throws" or "returns".
loadOptionsFromFile(f) ==
  IF f.root = "notJson" THEN "throws"
  ELSE IF f.root # "object" THEN "throws"
  ELSE IF suspiciousKeys(f) THEN "throws"
  ELSE IF ~stringFieldOk(f.consensusCheckpoint) THEN "throws"
  ELSE IF ~boolFieldOk(f.validatorEnabled) \/ ~boolFieldOk(f.mevBoostEnabled)
         THEN "throws"
  ELSE "returns"

\* Module start: if (fs.existsSync(optionsFilePath)) try { load, assign,
\* optionsLoaded = true, exit(1) for geth on macOS } catch { debugToFile };
\* if (!optionsLoaded) the command line is parsed, process.exit(1) on an
\* invalid option. The 'exit' listener of index.js is not yet registered.
loadOptions ==
  /\ pc[Me] = "load"
  /\ LET loaded == optionsFile /\ loadOptionsFromFile(optionsAtStart) = "returns"
     IN  /\ optionsLoaded' = loaded
         /\ \E fails \in BOOLEAN, mev \in BOOLEAN, val \in BOOLEAN, cc \in BOOLEAN :
              /\ pc' = [pc EXCEPT ![Me] = IF fails THEN "done" ELSE "exists"]
              /\ exitCode' = [exitCode EXCEPT ![Me] = IF fails THEN 1 ELSE -1]
              /\ IF loaded
                   THEN /\ validatorEnabled' = (optionsAtStart.validatorEnabled = "true")
                        /\ mevBoostEnabled' = (optionsAtStart.mevBoostEnabled = "true")
                        /\ consensusCheckpoint' =
                             (optionsAtStart.consensusCheckpoint \in JsonStrings)
                   ELSE IF fails
                          THEN UNCHANGED cfgVars
                          ELSE /\ validatorEnabled' = val
                               /\ mevBoostEnabled' = mev
                               /\ consensusCheckpoint' = cc
  /\ UNCHANGED <<lockFile, optionsFile, readPid, isExiting, optionsAtStart>>
  /\ UNCHANGED <<childVars, dirVars, passwordFiles, secretFiles, cleanupCalls,
                  storeLog, lastCall, raised, pubkey, passwordDir, keyVars, urlVars,
                  envVars, gateVars>>

\* The program is started with or without an options.json.
InitSpecOptions ==
  /\ lockFile \in {NoLock, StalePid}
  /\ optionsAtStart \in OptionFiles \cup {NoOptionsFile}
  /\ optionsFile = (optionsAtStart # NoOptionsFile)
  /\ optionsLoaded = FALSE
  /\ InitEnv
  /\ InitGate
  /\ pc = [i \in Inst |-> IF i = Me THEN "load" ELSE "idle"]
  /\ readPid = [i \in Inst |-> NoLock]
  /\ isExiting = [i \in Inst |-> FALSE]
  /\ exitCode = [i \in Inst |-> -1]
  /\ mevBoostEnabled = FALSE
  /\ validatorEnabled = FALSE
  /\ consensusCheckpoint = FALSE
  /\ InitChildren
  /\ secureDirPath = "null"
  /\ macRamDiskDevice = FALSE
  /\ secureDir = FALSE
  /\ ramDisk = FALSE
  /\ otherDirs = {}
  /\ passwordFiles = {}
  /\ secretFiles = {}
  /\ cleanupCalls = 0
  /\ storeLog = <<>>
  /\ lastCall = "none"
  /\ raised = FALSE
  /\ pubkey = <<>>
  /\ passwordDir = FALSE
  /\ password = ""
  /\ secretContent = ""
  /\ entered = ""
  /\ prompts = <<>>
  /\ keystores = TRUE
  /\ prysmWallet = FALSE
  /\ consensusClient = "lighthouse"
  /\ keySetup = "done"
  /\ selectedCheckpointUrl = "null"
  /\ checkpointUrl = "unset"
  /\ candidates = <<>>
  /\ bestUrl = NotSelected

SpecOptions == InitSpecOptions /\ [][loadOptions]_vars

\* ------------------------------------------------------------ SpecEnv
\* The environments handed down at the spawns: from the supervisor to the
\* role scripts, and from the role scripts to the client binaries.

\* The variables the audited spawns name.
Whitelist == {"HOME", "PATH", "TERM", "INSTALL_DIR"}

\* The roles whose script spawns its binary through node-pty in this tree.
WrappedRoles == {"mevBoost", "validator"}

\* env: { ...process.env, INSTALL_DIR: installDir }
spreadEnv(env) == env \cup {"INSTALL_DIR"}

\* env: { HOME: process.env.HOME, PATH: process.env.PATH,
\*        TERM: process.env.TERM || "xterm-color", INSTALL_DIR: installDir }
whitelistEnv(env) == (env \cap {"HOME", "PATH"}) \cup {"TERM", "INSTALL_DIR"}

\* spawn("node", [script, ...], { env }) in startClient, startValidatorClient
\* and startMevBoost of index.js.
supervisorSpawnEnv(r, env) == spreadEnv(env)

\* pty.spawn(command, args, { env }) in mevboost.js and in the validator
\* scripts.
ptySpawnEnv(r, env) == IF r = "validator" THEN whitelistEnv(env) ELSE spreadEnv(env)

\* Whether envs, the pairs of a role and the environment it was spawned
\* with, has a pair of role r.
spawned(envs, r) == \E e \in envs : e[1] = r

\* The supervisor spawns the script of role r.
spawnRoleScript(r) ==
  /\ ~spawned(roleEnv, r)
  /\ roleEnv' = roleEnv \cup {<<r, supervisorSpawnEnv(r, parentEnv)>>}
  /\ UNCHANGED <<parentEnv, binaryEnv>>
  /\ UNCHANGED <<dirVars, passwordFiles, secretFiles, cleanupCalls, storeLog, lastCall,
                  raised, pubkey, passwordDir, keyVars, urlVars, optVars, gateVars>>
  /\ UNCHANGED <<lockVars, cfgVars, childVars>>

\* The script of role r spawns the client binary.
spawnBinary(r) ==
  /\ spawned(roleEnv, r)
  /\ ~spawned(binaryEnv, r)
  /\ \E e \in roleEnv :
       /\ e[1] = r
       /\ binaryEnv' = binaryEnv \cup {<<r, ptySpawnEnv(r, e[2])>>}
  /\ UNCHANGED <<parentEnv, roleEnv>>
  /\ UNCHANGED <<dirVars, passwordFiles, secretFiles, cleanupCalls, storeLog, lastCall,
                  raised, pubkey, passwordDir, keyVars, urlVars, optVars, gateVars>>
  /\ UNCHANGED <<lockVars, cfgVars, childVars>>

\* The supervisor is started in any environment.
InitSpecEnv ==
  /\ lockFile = Me
  /\ optionsFile = FALSE
  /\ pc = [i \in Inst |-> IF i = Me THEN "setup" ELSE "idle"]
  /\ readPid = [i \in Inst |-> NoLock]
  /\ isExiting = [i \in Inst |-> FALSE]
  /\ exitCode = [i \in Inst |-> -1]
  /\ mevBoostEnabled = TRUE
  /\ validatorEnabled = TRUE
  /\ consensusCheckpoint = FALSE
  /\ InitChildren
  /\ secureDirPath = "null"
  /\ macRamDiskDevice = FALSE
  /\ secureDir = FALSE
  /\ ramDisk = FALSE
  /\ otherDirs = {}
  /\ passwordFiles = {}
  /\ secretFiles = {}
  /\ cleanupCalls = 0
  /\ storeLog = <<>>
  /\ lastCall = "none"
  /\ raised = FALSE
  /\ pubkey = <<>>
  /\ passwordDir = FALSE
  /\ password = ""
  /\ secretContent = ""
  /\ entered = ""
  /\ prompts = <<>>
  /\ keystores = TRUE
  /\ prysmWallet = FALSE
  /\ consensusClient = "lighthouse"
  /\ keySetup = "done"
  /\ selectedCheckpointUrl = "null"
  /\ checkpointUrl = "unset"
  /\ candidates = <<>>
  /\ bestUrl = NotSelected
  /\ optionsAtStart = NoOptionsFile
  /\ optionsLoaded = FALSE
  /\ parentEnv \in SUBSET EnvNames
  /\ roleEnv = {}
  /\ binaryEnv = {}
  /\ InitGate

NextEnv ==
  \/ \E r \in Roles : spawnRoleScript(r)
  \/ \E r \in WrappedRoles : spawnBinary(r)

SpecEnv == InitSpecEnv /\ [][NextEnv]_vars

\* ------------------------------------------------------------ SpecPresence
\* The physical-presence gate before the validator role is launched. The
\* --yubikey option and verifyYubiKeyPresence are of a later revision of
\* commandLineOptions.js, keyManager.js and index.js than the files at
\* hand, whose option parser rejects the flag as unknown; the gate is
\* modelled as the specification and the audit report describe it.

\* /^[cbdefghijklnrtuv]{32,64}$/
MinOtpLength == 32
MaxOtpLength == 64

\* The lengths of the entries tried, around the two limits.
OtpLengths == {0, 1, MinOtpLength - 1, MinOtpLength, 44, MaxOtpLength, MaxOtpLength + 1}

\* The entries tried at the physical-presence question.
OtpInputs == [len : OtpLengths, modhex : BOOLEAN]

\* The format test taking any entry of the alphabet.
looksLikeOtpAnyLength(input) == input.modhex

\* The format test: the alphabet and the length of a one-time code; no
\* verification against the issuing authority.
looksLikeOtp(input) ==
  /\ input.modhex
  /\ input.len >= MinOtpLength
  /\ input.len <= MaxOtpLength

\* requirePhysicalPresence(tokenInput), evaluated before the validator role
\* is launched: an entry of the format lets the start go on to the
\* validator, any other entry ends it there.
requirePhysicalPresence ==
  /\ pc[Me] = "presence"
  /\ yubikeyEnabled
  /\ \E input \in OtpInputs :
       /\ otpInput' = input
       /\ presence' = IF looksLikeOtp(input) THEN "accepted" ELSE "rejected"
       /\ pc' = [pc EXCEPT ![Me] = IF looksLikeOtp(input) THEN "waitBeacon"
                                   ELSE "refused"]
  /\ UNCHANGED <<lockFile, optionsFile, readPid, isExiting, exitCode, yubikeyEnabled>>
  /\ UNCHANGED <<cfgVars, childVars>>
  /\ UNCHANGED <<dirVars, passwordFiles, secretFiles, cleanupCalls, storeLog, lastCall,
                  raised, pubkey, passwordDir, keyVars, urlVars, optVars, envVars>>

\* Without the requirement the start goes on to the validator.
presenceNotRequired ==
  /\ pc[Me] = "presence"
  /\ ~yubikeyEnabled
  /\ pc' = [pc EXCEPT ![Me] = "waitBeacon"]
  /\ UNCHANGED <<lockFile, optionsFile, readPid, isExiting, exitCode>>
  /\ UNCHANGED <<cfgVars, childVars, storeVars>>

\* The beacon node has been started; the validator role is next.
InitSpecPresence ==
  /\ lockFile = Me
  /\ optionsFile = FALSE
  /\ pc = [i \in Inst |-> IF i = Me THEN "presence" ELSE "idle"]
  /\ readPid = [i \in Inst |-> NoLock]
  /\ isExiting = [i \in Inst |-> FALSE]
  /\ exitCode = [i \in Inst |-> -1]
  /\ mevBoostEnabled \in BOOLEAN
  /\ validatorEnabled = TRUE
  /\ consensusCheckpoint \in BOOLEAN
  /\ InitChildren
  /\ secureDirPath = "null"
  /\ macRamDiskDevice = FALSE
  /\ secureDir = FALSE
  /\ ramDisk = FALSE
  /\ otherDirs = {}
  /\ passwordFiles = {}
  /\ secretFiles = {}
  /\ cleanupCalls = 0
  /\ storeLog = <<>>
  /\ lastCall = "none"
  /\ raised = FALSE
  /\ pubkey = <<>>
  /\ passwordDir = FALSE
  /\ password = ""
  /\ secretContent = ""
  /\ entered = ""
  /\ prompts = <<>>
  /\ keystores = TRUE
  /\ prysmWallet = FALSE
  /\ consensusClient \in ConsensusClients
  /\ keySetup = "done"
  /\ selectedCheckpointUrl = "null"
  /\ checkpointUrl = "unset"
  /\ candidates = <<>>
  /\ bestUrl = NotSelected
  /\ optionsAtStart = NoOptionsFile
  /\ optionsLoaded = FALSE
  /\ InitEnv
  /\ yubikeyEnabled \in BOOLEAN
  /\ otpInput = NoOtp
  /\ presence = "unasked"

NextPresence ==
  \/ requirePhysicalPresence
  \/ presenceNotRequired
  \/ startValidatorClient

SpecPresence == InitSpecPresence /\ [][NextPresence]_vars

\* ------------------------------------------------------------ claims

\* Instances that took the primary branch and are running.
Primaries == {i \in Inst : pc[i] \in PrimaryPcs}

\* C1: while the pid in the lock file is alive, at most one instance is on the
\* primary branch (none of two instances both believe they own the lock).
C1_AtMostOnePrimary ==
  alive(lockFile) => Cardinality(Primaries) <= 1

\* C2: when the lock file named a dead pid and every instance has finished its
\* startup check, exactly one instance is primary and the lock file holds
\* that instance's pid.
C2_StaleLockReclaimedByOne ==
  ( /\ \E i \in Inst : readPid[i] = StalePid
    /\ \A i \in Inst : pc[i] \in {"checkpoint", "observer"} )
  => \E i \in Inst : Primaries = {i} /\ lockFile = i

\* C3: in a run in which no spawn fails (and, by Fairness, every signalled
\* child exits), once handleExit has begun a shutdown (isExiting), eventually
\* the supervisor has terminated, every launched role has exited and the lock
\* file does not exist.
C3_ShutdownCompletes ==
  [](\A r \in Roles : child[r] # "failed")
  => ( isExiting[Me] ~>
         ( /\ pc[Me] = "done"
           /\ lockFile = NoLock
           /\ \A r \in Range(spawnLog) : child[r] \in {"dead", "exited"} ) )

\* C4: when the supervisor has released the lock and terminated through
\* handleExit/checkExit, no child it spawned is still running.
C4_NoChildLeftRunning ==
  (pc[Me] = "done" /\ isExiting[Me])
  => \A r \in Roles : child[r] # "running"

\* Number of times child.kill was called for a role.
killCount(r) == Cardinality({k \in 1..Len(killLog) : killLog[k] = r})

C6_AllTriggersSameShutdown ==
  pc[Me] \in Suspended =>
    /\ LET bySIGINT == deliver(Me, "SIGINT")
       IN  \A e \in ExitTypes : deliver(Me, e) = bySIGINT
    /\ \A e \in ExitTypes :
         (lockCheck(Me) = "owner" /\ ~isExiting[Me]) =>
           deliver(Me, e).isExiting /\ ~deliver(Me, e).optionsFile

\* C6 witness: a shutdown begun by an unhandled rejection signalled children,
\* released the lock and ended the process.
C6_Witness ==
  /\ exitLog = "unhandledRejection"
  /\ pc[Me] = "done"
  /\ lockFile = NoLock
  /\ ~optionsFile
  /\ Len(killLog) >= 2

\* The role signalled by this step, if any.
Signalled(r) ==
  /\ Len(killLog') = Len(killLog) + 1
  /\ killLog'[Len(killLog')] = r

\* C7: a termination signal is sent to the execution client, the consensus
\* client or the relay only when a running validator has been signalled.
C7_ValidatorSignalledFirst ==
  [][ (\E r \in Roles \ {"validator"} : Signalled(r))
      => (child["validator"] = "running" => "validator" \in Range(killLog)) ]_vars

\* C8: the relay is signalled only when every running execution or consensus
\* client has been signalled.
C8_RelaySignalledAfterClients ==
  [][ Signalled("mevBoost")
      => \A r \in {"execution", "consensus"} :
           child[r] = "running" => r \in Range(killLog) ]_vars

\* Position of a role in the dependency chain relay, execution, consensus,
\* validator.
chainRank(r) ==
  CASE r = "mevBoost" -> 1
    [] r = "execution" -> 2
    [] r = "consensus" -> 3
    [] r = "validator" -> 4

\* C9: a role is spawned only after every enabled role earlier in the chain
\* relay, execution, consensus, validator has been spawned, and once.
C9_SpawnOrderIsChain ==
  \A k \in 1..Len(spawnLog) :
    /\ \A j \in 1..(k - 1) : chainRank(spawnLog[j]) < chainRank(spawnLog[k])
    /\ \A r \in Roles :
         (roleEnabled(r) /\ chainRank(r) < chainRank(spawnLog[k]))
         => \E j \in 1..(k - 1) : spawnLog[j] = r

\* C9 witness: all four roles were spawned.
C9_Witness ==
  /\ Len(spawnLog) = 4
  /\ pc[Me] = "running"

\* C10: after a failed spawn of the execution client the consensus client is
\* not spawned, and after a failed spawn of the consensus client the
\* validator is not spawned.
C10_DependentNotSpawnedAfterFailure ==
  /\ child["execution"] = "failed" => child["consensus"] = "none"
  /\ child["consensus"] = "failed" => child["validator"] = "none"


\* The "exit" event of role r's child is handled in this step.
ExitHandled(r) == child[r] = "dead" /\ child'[r] = "exited"

\* C11: whenever a role's child exits while no shutdown has been requested, a
\* crash alert is sent for that role, whether the child ended with an exit
\* code or was killed by a signal.
C11_UnexpectedExitAlerts ==
  [][ \A r \in Roles :
        (ExitHandled(r) /\ ~isExiting[Me]) => alerts'[r] # "" ]_vars

\* C12: the crash alert of the validator is tagged critical, the alert of the
\* execution client, the consensus client and the relay is not.
C12_ValidatorAlertCritical ==
  \A r \in Roles : alerts[r] # "" => (alerts[r] = "CRITICAL" <=> r = "validator")

\* An alert was sent for the validator and for another role.
C12_Witness ==
  /\ alerts["validator"] # ""
  /\ \E r \in Roles \ {"validator"} : alerts[r] # ""


\* Number of times spawn() was called for role r.
spawnCount(r) == Len(SelectSeq(spawnLog, LAMBDA x : x = r))

\* C13: the exited state of a role is absorbing: once the role's child has
\* exited, the role is not spawned again and its exited flag stays set.
C13_ExitedIsAbsorbing ==
  [][ \A r \in Roles :
        (child[r] = "exited" /\ exited[r])
          => /\ child'[r] = "exited"
             /\ exited'[r]
             /\ spawnCount(r)' = spawnCount(r) ]_vars

\* A child crashed, later the supervisor started other roles, was asked to
\* shut down and terminated.
C13_Witness ==
  /\ \E r \in Roles : child[r] = "exited" /\ alerts[r] # "" /\ spawnLog[Len(spawnLog)] # r
  /\ isExiting[Me]
  /\ pc[Me] = "done"


\* Instance i takes a step as an observer.
ObserverStep(i) ==
  /\ pc[i] = "observer"
  /\ pc'[i] # pc[i] \/ isExiting'[i] # isExiting[i]

\* C14: an instance that found the lock held by a live pid only observes: no
\* step it takes, the handling of a termination signal included, spawns a
\* role, signals a child, or removes the lock file or options.json.
C14_ObserverTouchesNothing ==
  [][ \A i \in Inst :
        ObserverStep(i)
          => /\ lockFile' = lockFile
             /\ optionsFile' = optionsFile
             /\ spawnLog' = spawnLog
             /\ killLog' = killLog
             /\ killTimer' = killTimer
             /\ isExiting'[i] = FALSE ]_vars

\* An observer was sent a termination signal and ended while the primary
\* instance runs with its lock file and its options.json.
C14_Witness ==
  \E i \in Inst : \E j \in Inst \ {i} :
    /\ pc[i] = "done"
    /\ readPid[i] = j
    /\ pc[j] = "running"
    /\ lockFile = j
    /\ optionsFile


\* C15: when the lock-owning supervisor has terminated after a shutdown
\* request, options.json does not exist, whenever the request arrived.
C15_OptionsAbsentAfterShutdown ==
  (pc[Me] = "done" /\ isExiting[Me]) => ~optionsFile


\* C16: after a shutdown request the supervisor process terminates, even when
\* a child never exits (every spawn having succeeded).
C16_ShutdownTerminates ==
  [](\A r \in Roles : child[r] # "failed") => (isExiting[Me] ~> (pc[Me] = "done"))


\* The supervisor ended on an error path: a process.exit outside handleExit,
\* an uncaught exception, an unhandled rejection, or process.exit(1) in
\* handleExit.
ErrorExit ==
  /\ pc[Me] = "done"
  /\ \/ exitLog \in {"exit", "uncaughtException", "unhandledRejection"}
     \/ exitCode[Me] = 1

\* C17: when the lock-owning supervisor has ended on an error path, the lock
\* file has been removed.
C17_LockRemovedOnErrorExit == ErrorExit => lockFile = NoLock

\* setupValidatorKeys ended the lock-owning supervisor.
C17_Witness == ErrorExit /\ exitLog = "exit" /\ spawnLog = <<>> /\ ~optionsFile


\* C18: when a supervisor run that saved a keystore password has ended,
\* cleanupSecureDir was called exactly once and neither the password file nor
\* a per-validator secret file remains.
C18_SecretsDestroyedOnExit ==
  (pc[Me] = "done" /\ lastCall # "none")
    => (cleanupCalls = 1 /\ passwordFiles = {} /\ secretFiles = {})

\* C19: cleanupSecureDir is idempotent: a call that follows another call
\* removes nothing, detaches nothing and leaves the state as it was, and no
\* call throws.
C19_CleanupIdempotent ==
  [][ cleanupCalls' # cleanupCalls
        => /\ ~raised'
           /\ lastCall \in {"cleanup", "cleanupAgain"}
                => UNCHANGED <<dirVars, passwordFiles, secretFiles, storeLog>> ]_vars

\* cleanupSecureDir was called twice in succession, and the first of the two
\* calls removed the secure directory.
C19_Witness ==
  /\ cleanupCalls = 2
  /\ lastCall = "cleanupAgain"
  /\ storeLog # <<>>
  /\ ~secureDir

\* C20: no per-validator secret file is written outside the secrets directory.
C20_NoSecretOutsideSecretsDir == "outside" \notin secretFiles


\* C21: in a run that launches the validator role, the keystore password is
\* never written under the install directory
\* (ethereum_clients/validator/password.txt), only inside the secure directory.
C21_PasswordOnlyInSecureDir ==
  "validator" \in Range(spawnLog) => "disk" \notin passwordFiles


\* C22: createSecureDir never fails because the memory-backed directory cannot
\* be created: it returns the path of a directory that exists.
C22_CreateSecureDirFallsBack ==
  lastCall = "create" => (~raised /\ secureDirPath # "null" /\ secureDir)

\* C23: once createSecureDir has created its directory, no directory of an
\* instance that is gone is left on the backing it used, and no directory of
\* a running instance was removed.
C23_StaleDirsRemoved ==
  [][ /\ (LiveDirs \cap otherDirs) \subseteq otherDirs'
      /\ (lastCall' = "create" /\ secureDirPath' # "null")
           => <<secureDirPath', "dead">> \notin otherDirs' ]_vars


\* C24: no password file ever holds a password shorter than 8 characters,
\* and a start at which the operator typed a shorter password has ended
\* with exit code 1.
C24_NoShortPasswordStored ==
  /\ passwordFiles # {} => Len(password) >= MinPasswordLength
  /\ (prompts # <<>> /\ Len(entered) < MinPasswordLength)
       => (pc[Me] = "done" /\ exitCode[Me] = 1)


\* C25: a first-time key setup that ends at a mismatched confirmation
\* stores no password, and a start that follows it passes the setup step
\* only by completing the first-time setup, with the password asked for
\* and confirmed and, for Prysm, the wallet import run.
C25_MismatchRedoesFirstTimeSetup ==
  [][ /\ ( /\ pc[Me] = "setup" /\ ~keystores
           /\ pc'[Me] = "done" /\ prompts' = <<"password", "confirm">> )
           => UNCHANGED <<passwordFiles, password>>
      /\ (pc[Me] = "setup" /\ keySetup = "mismatch" /\ pc'[Me] = "validating")
           => (prompts' = <<"password", "confirm">> /\ keySetup' = "done") ]_vars


\* The validator was launched and its script has run.
ValidatorLaunched == pc[Me] = "validating" /\ lastCall \in {"populate", "prysm"}

C27_OverrideUsedVerbatim ==
  consensusCheckpoint =>
    /\ pc[Me] \notin {"selecting", "spinner"}
    /\ selectedCheckpointUrl # "selected"
    /\ "consensus" \in Range(spawnLog) => checkpointUrl = "override"

\* The consensus client runs, started with the operator's URL.
C27_Witness ==
  /\ consensusCheckpoint
  /\ child["consensus"] = "running"
  /\ checkpointUrl = "override"

\* This step calls spawn() for the consensus client.
ConsensusSpawned ==
  "consensus" \notin Range(spawnLog) /\ "consensus" \in Range(spawnLog')

\* C28: without --consensuscheckpoint, when the selection returns no URL
\* the startup goes on (the selection is left towards the key setup, or by
\* a delivered shutdown trigger, never by an exit of its own), and the
\* consensus client is started after the execution client, without a
\* checkpoint argument.
C28_NoUrlStartsWithoutCheckpoint ==
  [][ /\ (pc[Me] = "selecting" /\ pc'[Me] # "selecting")
           => (pc'[Me] \in {"setup", "spinner"} \/ exitLog' \in ExitTypes)
      /\ (~consensusCheckpoint /\ selectedCheckpointUrl = "null" /\ ConsensusSpawned)
           => (checkpointUrl' = "none" /\ "execution" \in Range(spawnLog)) ]_vars

\* No URL was selected; both clients run and no shutdown has begun.
C28_Witness ==
  /\ ~consensusCheckpoint
  /\ selectedCheckpointUrl = "null"
  /\ checkpointUrl = "none"
  /\ child["execution"] = "running"
  /\ child["consensus"] = "running"
  /\ ~isExiting[Me]


\* C29: the selection returns an eligible candidate that no eligible
\* candidate outranks (fresher, or as fresh and quicker), and returns
\* none, without an error, when no candidate is eligible, as when every
\* candidate is unreachable.
C29_SelectBestReturnsTopRanked ==
  bestUrl # NotSelected =>
    LET E == {k \in 1..Len(candidates) : eligible(candidates[k])}
    IN  IF E = {} THEN bestUrl = NoneFound
        ELSE /\ bestUrl \in E
             /\ \A k \in E :
                  /\ candidates[bestUrl].headSlotAge <= candidates[k].headSlotAge
                  /\ candidates[bestUrl].headSlotAge = candidates[k].headSlotAge
                       => candidates[bestUrl].latency <= candidates[k].latency

\* Two fresh candidates of the same age: the later, quicker one was chosen.
C29_Witness ==
  /\ bestUrl = 2
  /\ eligible(candidates[1])
  /\ candidates[1].headSlotAge = candidates[2].headSlotAge
  /\ candidates[2].latency < candidates[1].latency


\* The file fails the schema validation the claim names: the root is not
\* an object, an own key is suspicious, or a field has the wrong type.
Malformed(f) ==
  /\ f # NoOptionsFile
  /\ \/ f.root # "object"
     \/ f.ownSuspiciousKey
     \/ ~stringFieldOk(f.consensusCheckpoint)
     \/ ~boolFieldOk(f.validatorEnabled)
     \/ ~boolFieldOk(f.mevBoostEnabled)

\* C30: once the module start is over, a malformed options.json has
\* ended the process with a failure status.
C30_MalformedOptionsFail ==
  (Malformed(optionsAtStart) /\ pc[Me] # "load")
    => (pc[Me] = "done" /\ exitCode[Me] = 1)


\* C31: every spawned role script and every spawned client binary sees
\* only variables of the whitelist HOME, PATH, TERM, INSTALL_DIR.
C31_SpawnEnvWhitelisted ==
  \A e \in roleEnv \cup binaryEnv : e[2] \subseteq Whitelist



\* C32: a start of the primary instance that ends at a rejected keystore
\* password (too short, or a mismatched confirmation), the lock being
\* held, terminates with exit code 1 and never with exit code 0.
C32_RejectedPasswordExitsOne ==
  [][ (pc[Me] = "setup" /\ lockFile = Me /\ pc'[Me] = "done" /\ prompts' # <<>>)
        => exitCode'[Me] = 1 ]_vars



C34_NoStartupAfterShutdownRequest ==
  [][ isExiting[Me]
        => /\ spawnLog' = spawnLog
           /\ optionsFile' => optionsFile ]_vars



\* C35: a role whose spawn failed is recorded as exited: a shutdown that
\* has sent its signals is not left waiting for such a role.
C35_FailedSpawnRecordedExited ==
  ( /\ isExiting[Me]
    /\ pc[Me] # "done"
    /\ \A r \in Roles : killTimer[r] # "pending" )
  => \A r \in Roles : child[r] = "failed" => exited[r]



\* C36: the exit of a child that the supervisor observes while isExiting
\* is set sends no alert, whatever the role and the exit code.
C36_NoAlertDuringShutdown ==
  [][ \A r \in Roles :
        (isExiting[Me] /\ child[r] = "dead" /\ child'[r] = "exited")
          => alerts' = alerts ]_vars

\* A child signalled by the shutdown has exited, the supervisor has seen
\* the exit, and no alert was sent for the role.
C36_Witness ==
  \E r \in Roles :
    /\ isExiting[Me]
    /\ r \in Range(killLog)
    /\ child[r] = "exited"
    /\ exited[r]
    /\ alerts[r] = ""



\* C37: while a live primary instance holds the lock file, no step of
\* another instance deletes or overwrites the file, however the other
\* instance's startup check interleaves with the primary's own steps.
C37_LiveLockNeverClobbered ==
  [][ \A i \in Inst :
        ( /\ lockFile = i
          /\ i \in Primaries
          /\ pc[i] # "done"
          /\ pc'[i] = pc[i]
          /\ isExiting'[i] = isExiting[i] )
        => lockFile' = i ]_vars



\* C38: an options.json written by saveOptionsToFile is accepted by the
\* load of the next start, which takes the saved values: validatorEnabled,
\* mevBoostEnabled and the presence of consensusCheckpoint are those saved.
C38_SavedOptionsLoadBack ==
  \A val \in BOOLEAN, mev \in BOOLEAN, cc \in BOOLEAN :
    ( /\ optionsFile
      /\ optionsAtStart = savedOptions(val, mev, cc)
      /\ pc[Me] # "load" )
    => /\ optionsLoaded
       /\ validatorEnabled = val
       /\ mevBoostEnabled = mev
       /\ consensusCheckpoint = cc

====
